---- MODULE Spec2Model ----
(***************************************************************************)
(* State-machine model of the two scripts of megbedell/orchestra:          *)
(*                                                                         *)
(*   scripts/eso_retrieve.py   the batch retrieval pipeline   (Spec)       *)
(*   scripts/measure_shk.py    the parallel S_HK measurement  (SpecMeasure)*)
(*                                                                         *)
(* Both are Python 2 scripts (cPickle, integer "/").  The two programs     *)
(* share no state; each specification moves only its own variables.        *)
(***************************************************************************)
EXTENDS Integers, Sequences, FiniteSets, TLC

(***************************************************************************)
(* Bounds of the model.                                                    *)
(***************************************************************************)
MaxN == 3           \* at most this many pending dataset identifiers
MaxBatch == 2       \* BATCH is drawn from 1..MaxBatch
MaxSkip == 2        \* SKIP is drawn from 0..MaxSkip
MaxRuns == 2        \* the script is started at most this many times
MaxFiles == 2       \* at most this many spectra match the glob
MaxChunk == 3       \* files of the chunk of a worker observed alone
MaxDbFailures == 2  \* database failures met by one run of measure_shk.py
MaxWork == 6        \* files of the work list when the dispatch is observed

VARIABLES
    \* ---- eso_retrieve.py ----
    records,                \* rows fetched from phase3_products (line 51)
    BATCH,                  \* in-source setting, line 30
    SKIP,                   \* in-source setting, line 29
    run,                    \* how many times the script has been started
    rpc,                    \* control point of the running script
    abort_at,               \* where an uncaught exception ended the run
    i,                      \* loop variable of "for i in range(I)"
    data,                   \* dataset identifiers of the current batch
    prepare_response,       \* response of the confirmation POST
    confirmation_response,  \* response of the submission POST
    request_numbers,        \* in-memory list, line 62
    remote_paths,           \* in-memory list, line 61
    request_numbers_file,   \* eso_retrieve_request_numbers.pkl
    remote_paths_file,      \* eso_retrieve_paths.pkl
    script_file,            \* download_spectra.sh (the substituted paths)
    posts,                  \* requests received by the archive, in order
    \* ---- measure_shk.py: the parent process ----
    filenames,              \* the glob result, then the work list (33, 156)
    N_shk,                  \* "N" of measure_shk.py (lines 34, 159)
    obs_filenames,          \* result of SELECT filename FROM obs
    mpc,                    \* control point of the parent
    mabort,                 \* the exception that ended the parent
    collected,              \* results already fetched by each.get()
    \* ---- measure_shk.py: the pool's worker processes ----
    chunk,                  \* chunk[t]: the arguments of worker t's call
    n,                      \* n[t]: index of the file worker t is at
    wpc,                    \* wpc[t]: control point of worker t
    wcrash,                 \* wcrash[t]: where an exception left worker t
    calls,                  \* calls[t]: calls of measure_stellar_activity
    outcome,                \* outcome[t]: how the latest call ended
    connections,            \* connections[t]: the worker's connection list
    txn,                    \* txn[t]: transaction of connections[t][-1]
    rv,                     \* rv[t]: "rv" of worker t's latest call (76)
    attempted,              \* attempted[t]: the INSERT of the latest call
    shk_index_calls,        \* shk_index_calls[t]: calls of shk_index (85)
    opened,                 \* opened[t]: connections opened so far
    closed,                 \* the connections that have been closed
    used,                   \* <<connection, worker>>: who has used which
    db_failures,            \* database failures that have occurred
    stellar_activity,       \* rows of the stellar_activity table
    inserts                 \* INSERT statements the server has committed

rvars == <<records, BATCH, SKIP, run, rpc, abort_at, i, data,
           prepare_response, confirmation_response, request_numbers,
           remote_paths, request_numbers_file, remote_paths_file,
           script_file, posts>>

mvars == <<filenames, N_shk, obs_filenames, mpc, mabort, collected>>

wvars == <<chunk, n, wpc, wcrash, calls, outcome, connections, txn, rv,
           attempted, shk_index_calls, opened, closed, used, db_failures,
           stellar_activity, inserts>>

vars == <<rvars, mvars, wvars>>

NoFile == [exists |-> FALSE]                 \* os.path.exists(...) is False
File(c) == [exists |-> TRUE, content |-> c]  \* a pickled list, or a script
None == [bound |-> FALSE]                    \* a name not yet bound
NoMarker == [marker |-> FALSE]               \* a text without "Request #"
Marked(t) == [marker |-> TRUE, tail |-> t]   \* "... Request #" then t

Min(a, b) == IF a < b THEN a ELSE b

(***************************************************************************)
(* Sequences without repetition over S, of length at most len.             *)
(***************************************************************************)
InjSeqs(S, len) ==
    UNION {{q \in [1..k -> S] : \A a, b \in 1..k : a # b => q[a] # q[b]}
           : k \in 0..len}

(***************************************************************************)
(* Lines 55-56.  Python 2: "/" on ints is floor division.                  *)
(***************************************************************************)
N == Len(records)

I_NoRemainder == N \div BATCH

I == N \div BATCH + (IF N % BATCH # 0 THEN 1 ELSE 0)

(***************************************************************************)
(* Line 72: records[k*BATCH:(k + 1)*BATCH].  A Python slice is clamped to  *)
(* the length of the list.                                                 *)
(***************************************************************************)
BatchSlice(k) == SubSeq(records, k * BATCH + 1, Min((k + 1) * BATCH, N))

(***************************************************************************)
(* Lines 58-59: the condition whose negation is asserted.                  *)
(***************************************************************************)
CheckpointExistsOnlyRequests == request_numbers_file.exists

CheckpointExistsNever == FALSE

CheckpointExists ==
    request_numbers_file.exists \/ remote_paths_file.exists

(***************************************************************************)
(* Lines 80 and 94: "assert response.ok".                                  *)
(***************************************************************************)
AssertOkIgnored(ok, next) == next

AssertOk(ok, next) == IF ok THEN next ELSE "aborted"

(***************************************************************************)
(* Line 97-98 on a response text.  The text is modelled by the characters  *)
(* that follow its first "Request #" (NoMarker when it has none).          *)
(*   re.findall("Request #[0-9]+\w", text)[0].split()[-1]  then            *)
(*   int(_.lstrip("#"))                                                    *)
(* [0-9]+ is greedy and \w needs one more word character, so the match is  *)
(* the leading digits plus one word character when one follows them, and   *)
(* otherwise all the leading digits provided there are at least two.       *)
(***************************************************************************)
Digits == {"1", "2"}
Letters == {"x"}
Chars == Digits \cup Letters \cup {" "}
IsWord(c) == c \in Digits \cup Letters

DigitVal(c) == IF c = "1" THEN 1 ELSE 2

RECURSIVE LeadingDigits(_)
LeadingDigits(t) ==
    IF t = <<>> \/ Head(t) \notin Digits THEN 0
    ELSE 1 + LeadingDigits(Tail(t))

\* The matched text after "#": <<>> when findall returns no match.
RequestMatch(text) ==
    IF ~text.marker THEN <<>>
    ELSE LET t == text.tail
             k == LeadingDigits(t) IN
         IF k >= 1 /\ Len(t) > k /\ IsWord(t[k + 1])
             THEN SubSeq(t, 1, k + 1)
         ELSE IF k >= 2 THEN SubSeq(t, 1, k)
         ELSE <<>>

RECURSIVE ToInt(_)
ToInt(t) ==
    IF t = <<>> THEN 0
    ELSE 10 * ToInt(SubSeq(t, 1, Len(t) - 1)) + DigitVal(t[Len(t)])

ParseOutcomeOk(text) == "ok"

\* "ok" with the number, "IndexError" (no match), "ValueError" (int fails).
ParseOutcome(text) ==
    LET m == RequestMatch(text) IN
    IF m = <<>> THEN "IndexError"
    ELSE IF \E k \in 1..Len(m) : m[k] \notin Digits THEN "ValueError"
    ELSE "ok"

\* The response bodies the archive is taken to answer with.
ResponseTexts ==
    {NoMarker, Marked(<<>>), Marked(<<"1">>), Marked(<<"1", " ">>),
     Marked(<<"1", "2">>), Marked(<<"2", "1">>), Marked(<<"1", "x">>),
     Marked(<<"1", "2", "x">>), Marked(<<"1", "2", " ", "x">>),
     Marked(<<"x", "1">>)}

(***************************************************************************)
(* The module-level names the script has bound when control reaches line   *)
(* 111 (imports, settings, and every assignment target of lines 27-110).   *)
(***************************************************************************)
GlobalNames ==
    {"pickle", "os", "pg", "re", "time", "yaml", "Table", "glob",
     "BeautifulSoup", "ESO", "cwd", "SKIP", "BATCH", "WAIT_TIME", "DATA_DIR",
     "fp", "credentials", "connection", "request_numbers_path",
     "remote_paths_path", "cursor", "records", "N", "I", "remote_paths",
     "request_numbers", "i", "data", "dataset", "eso", "prepare_response",
     "confirmation_response", "_", "cached_file", "url"}

Stopped == {"done", "aborted", "killed"}

(***************************************************************************)
(* Initial state: the script is started for the first time.  The files of  *)
(* an earlier run may or may not be lying in the script's directory.       *)
(***************************************************************************)
StaleRequestFiles == {NoFile, File(<<11>>), File(<<12, 21>>)}
StalePathFiles == {NoFile, File(<<"p0">>)}

InitRetrieve ==
    /\ records \in InjSeqs(1..MaxN, MaxN)
    /\ BATCH \in 1..MaxBatch
    /\ SKIP \in 0..MaxSkip
    /\ run = 1
    /\ rpc = "guard"
    /\ abort_at = "none"
    /\ i = 0
    /\ data = <<>>
    /\ prepare_response = None
    /\ confirmation_response = None
    /\ request_numbers = <<>>
    /\ remote_paths = <<>>
    /\ request_numbers_file \in StaleRequestFiles
    /\ remote_paths_file \in StalePathFiles
    /\ script_file = NoFile
    /\ posts = <<>>

Abort(where) ==
    /\ rpc' = "aborted"
    /\ abort_at' = where

\* Lines 58-62.
Guard ==
    /\ rpc = "guard"
    /\ IF CheckpointExists
         THEN /\ Abort("guard")
              /\ UNCHANGED <<remote_paths, request_numbers, i>>
         ELSE /\ remote_paths' = <<>>
              /\ request_numbers' = <<>>
              /\ i' = 0
              /\ rpc' = "for"
              /\ UNCHANGED abort_at
    /\ UNCHANGED <<records, BATCH, SKIP, run, data, prepare_response,
                   confirmation_response, request_numbers_file,
                   remote_paths_file, script_file, posts>>
    /\ UNCHANGED <<mvars, wvars>>

\* Lines 64-68: "if i < SKIP: continue".
SkipBatch ==
    /\ rpc = "for"
    /\ i < I
    /\ i < SKIP
    /\ i' = i + 1
    /\ UNCHANGED <<records, BATCH, SKIP, run, rpc, abort_at, data,
                   prepare_response, confirmation_response, request_numbers,
                   remote_paths, request_numbers_file, remote_paths_file,
                   script_file, posts>>
    /\ UNCHANGED <<mvars, wvars>>

\* Lines 64-76: the next batch is sliced out of records.
StartBatch ==
    /\ rpc = "for"
    /\ i < I
    /\ ~(i < SKIP)
    /\ data' = BatchSlice(i)
    /\ rpc' = "prepare"
    /\ UNCHANGED <<records, BATCH, SKIP, run, abort_at, i, prepare_response,
                   confirmation_response, request_numbers, remote_paths,
                   request_numbers_file, remote_paths_file, script_file,
                   posts>>
    /\ UNCHANGED <<mvars, wvars>>

\* Line 64: range(I) is exhausted.
LoopExit ==
    /\ rpc = "for"
    /\ ~(i < I)
    /\ rpc' = "emit"
    /\ UNCHANGED <<records, BATCH, SKIP, run, abort_at, i, data,
                   prepare_response, confirmation_response, request_numbers,
                   remote_paths, request_numbers_file, remote_paths_file,
                   script_file, posts>>
    /\ UNCHANGED <<mvars, wvars>>

\* Lines 78-80: the confirmation POST and its assert.
Prepare ==
    /\ rpc = "prepare"
    /\ \E ok \in BOOLEAN :
          /\ posts' = Append(posts, [run |-> run, batch |-> i,
                                     step |-> "confirmation", data |-> data])
          /\ prepare_response' = [bound |-> TRUE, ok |-> ok]
          /\ rpc' = AssertOk(ok, "submit")
          /\ abort_at' = IF rpc' = "aborted" THEN "prepare" ELSE abort_at
    /\ UNCHANGED <<records, BATCH, SKIP, run, i, data, confirmation_response,
                   request_numbers, remote_paths, request_numbers_file,
                   remote_paths_file, script_file>>
    /\ UNCHANGED <<mvars, wvars>>

\* Lines 83-94: the payload is extended, the submission POST is sent, and
\* its status is asserted.  The archive answers with any status and text.
Submit ==
    /\ rpc = "submit"
    /\ \E ok \in BOOLEAN, text \in ResponseTexts :
          /\ posts' = Append(posts, [run |-> run, batch |-> i,
                                     step |-> "submission", data |-> data])
          /\ confirmation_response' =
                 [bound |-> TRUE, ok |-> ok, text |-> text]
          /\ rpc' = AssertOk(ok, "parse")
          /\ abort_at' = IF rpc' = "aborted" THEN "submit" ELSE abort_at
    /\ UNCHANGED <<records, BATCH, SKIP, run, i, data, prepare_response,
                   request_numbers, remote_paths, request_numbers_file,
                   remote_paths_file, script_file>>
    /\ UNCHANGED <<mvars, wvars>>

\* Lines 97-98: findall(...)[0] raises IndexError on no match, int(...)
\* raises ValueError on a match that ends in a non-digit.
ParseRequest ==
    /\ rpc = "parse"
    /\ LET text == confirmation_response.text IN
       IF ParseOutcome(text) = "ok"
         THEN /\ request_numbers' =
                    Append(request_numbers, ToInt(RequestMatch(text)))
              /\ rpc' = "save"
              /\ UNCHANGED abort_at
         ELSE /\ Abort("parse")
              /\ UNCHANGED request_numbers
    /\ UNCHANGED <<records, BATCH, SKIP, run, i, data, prepare_response,
                   confirmation_response, remote_paths, request_numbers_file,
                   remote_paths_file, script_file, posts>>
    /\ UNCHANGED <<mvars, wvars>>

\* Lines 101-106: the whole list is pickled over the previous snapshot
\* (and the astroquery cache is emptied).
SaveRequestNumbers ==
    /\ rpc = "save"
    /\ request_numbers_file' = File(request_numbers)
    /\ rpc' = "retrieve"
    /\ UNCHANGED <<records, BATCH, SKIP, run, abort_at, i, data,
                   prepare_response, confirmation_response, request_numbers,
                   remote_paths, remote_paths_file, script_file, posts>>
    /\ UNCHANGED <<mvars, wvars>>

\* Lines 110-112: the format arguments of the print are evaluated; the
\* name request_number is bound nowhere in the script, so the evaluation
\* raises NameError and the run ends here.  (Lines 119-155, which read the
\* same name again at 120, are never reached.)
ReportRetrieve ==
    /\ rpc = "retrieve"
    /\ "request_number" \notin GlobalNames
    /\ Abort("retrieve")
    /\ UNCHANGED <<records, BATCH, SKIP, run, i, data, prepare_response,
                   confirmation_response, request_numbers, remote_paths,
                   request_numbers_file, remote_paths_file, script_file,
                   posts>>
    /\ UNCHANGED <<mvars, wvars>>

\* Lines 158-165: "\n".join(remote_paths) replaces the placeholder.
EmitScript ==
    /\ rpc = "emit"
    /\ script_file' = File(remote_paths)
    /\ rpc' = "done"
    /\ UNCHANGED <<records, BATCH, SKIP, run, abort_at, i, data,
                   prepare_response, confirmation_response, request_numbers,
                   remote_paths, request_numbers_file, remote_paths_file,
                   posts>>
    /\ UNCHANGED <<mvars, wvars>>

\* The operator kills the process (there is no other way to cancel it).
Interrupt ==
    /\ rpc \notin Stopped
    /\ rpc' = "killed"
    /\ UNCHANGED <<records, BATCH, SKIP, run, abort_at, i, data,
                   prepare_response, confirmation_response, request_numbers,
                   remote_paths, request_numbers_file, remote_paths_file,
                   script_file, posts>>
    /\ UNCHANGED <<mvars, wvars>>

\* The operator edits SKIP (line 29) and starts the script again: a new
\* process, in which no name of the loop is bound yet; the files and the
\* archive keep what the earlier run left.
Restart ==
    /\ rpc \in Stopped
    /\ run < MaxRuns
    /\ run' = run + 1
    /\ SKIP' \in 0..MaxSkip
    /\ rpc' = "guard"
    /\ abort_at' = "none"
    /\ i' = 0
    /\ data' = <<>>
    /\ prepare_response' = None
    /\ confirmation_response' = None
    /\ request_numbers' = <<>>
    /\ remote_paths' = <<>>
    /\ UNCHANGED <<records, BATCH, request_numbers_file, remote_paths_file,
                   script_file, posts>>
    /\ UNCHANGED <<mvars, wvars>>

NextRetrieve ==
    \/ Guard
    \/ SkipBatch
    \/ StartBatch
    \/ LoopExit
    \/ Prepare
    \/ Submit
    \/ ParseRequest
    \/ SaveRequestNumbers
    \/ ReportRetrieve
    \/ EmitScript
    \/ Interrupt
    \/ Restart

(***************************************************************************)
(* measure_shk.py                                                          *)
(***************************************************************************)
THREADS == 4                                  \* line 29

Workers == 0..(THREADS - 1)                   \* "for t in range(THREADS)"

(***************************************************************************)
(* File names and paths are sequences of tokens; a token stands for a      *)
(* piece of text that none of the separators of line 150 occurs in.        *)
(***************************************************************************)
DATA_DIR == <<"spectra", "/">>                \* line 30, ends with a slash

DateTokens == <<"d1", "d2", "d3", "d4", "d5", "d6", "d7", "d8">>

\* A path the glob of line 33 matches: the s1d spectrum of night k.
LocalPath(k) ==
    DATA_DIR \o <<"data", "/", "reduced", "/", DateTokens[k], "/", "HARPS.",
                  DateTokens[k], "T", "t0", "_s1d_A.fits">>

\* File names as the obs table holds them.
BisName(k) == <<"HARPS.", DateTokens[k], "T", "t0", "_bis_", "G2_A.fits">>
CcfName(k) == <<"HARPS.", DateTokens[k], "T", "t0", "_ccf_G2_A.fits">>
OtherName == <<"calibration.fits">>

\* str.split(sep): the pieces between the occurrences of sep.
RECURSIVE Split(_, _)
Split(str, sep) ==
    IF \E k \in 1..Len(str) : str[k] = sep
      THEN LET k == CHOOSE k \in 1..Len(str) :
                       str[k] = sep /\ \A j \in 1..(k - 1) : str[j] # sep
           IN  <<SubSeq(str, 1, k - 1)>>
                   \o Split(SubSeq(str, k + 1, Len(str)), sep)
      ELSE <<str>>

\* os.path.join(a, b) for a relative b.
PathJoin(a, b) ==
    IF a = <<>> THEN b
    ELSE IF a[Len(a)] = "/" THEN a \o b
    ELSE a \o <<"/">> \o b

\* Line 150: name.split("HARPS.")[1] raises IndexError without "HARPS.".
Reconstructible(name) == Len(Split(name, "HARPS.")) >= 2

\* Line 150: the path expected for an ingested file name.
ExpectedPath(name) ==
    LET date == Split(Split(name, "HARPS.")[2], "T")[1]
        joined == PathJoin(PathJoin(PathJoin(PathJoin(DATA_DIR, <<"data">>),
                      <<"reduced">>), date), name)
    IN  Split(joined, "_bis_")[1] \o <<"_s1d_A.fits">>

Range(f) == {f[k] : k \in DOMAIN f}

\* Lines 156-158: the assert on the size of the filtered list.
AssertFewer(measured, remaining, before) ==
    measured = {} \/ Cardinality(remaining) < before

\* list(set(...)): the order of the resulting list is not specified.
Orderings(S) ==
    {q \in [1..Cardinality(S) -> S] :
        \A a, b \in 1..Cardinality(S) : a # b => q[a] # q[b]}

ChunkSizeFloor == N_shk \div THREADS

\* Line 164: int(np.ceil(float(N)/THREADS)).
ChunkSize ==
    CHOOSE c \in 0..N_shk :
        c * THREADS >= N_shk /\ (c = 0 \/ (c - 1) * THREADS < N_shk)

\* Line 170: filenames[t * s:(t + 1) * s].
Chunk(t) ==
    SubSeq(filenames, t * ChunkSize + 1, Min((t + 1) * ChunkSize, N_shk))

(***************************************************************************)
(* How one call of measure_stellar_activity (lines 51-107) can end.        *)
(*   header_error   lines 53-61 raise (KeyError, IOError): not a           *)
(*                  DatabaseError, caught nowhere                          *)
(*   db_error       pg.DatabaseError from line 65, 93 or 104 with nothing  *)
(*                  committed (IntegrityError and DataError at 93 apart)   *)
(*   commit_lost_*  pg.DatabaseError from line 104 after the server has    *)
(*                  committed the row                                      *)
(*   no_row         line 68: no obs row for date_obs, return at line 73    *)
(*   rv_error       line 76: float(None) on a NULL drs_ccf_rvc raises      *)
(*                  TypeError: not a DatabaseError, caught nowhere         *)
(*   constraint     line 99: IntegrityError or DataError, rollback         *)
(*   measured       finite rv, shk_index result inserted and committed     *)
(*   undefined      non-finite rv, (nan, nan) inserted and committed       *)
(***************************************************************************)
Outcomes ==
    {"header_error", "db_error", "commit_lost_measured",
     "commit_lost_undefined", "no_row", "rv_error", "constraint",
     "measured", "undefined"}

DbErrorsNone == {}

\* The outcomes that reach the wrapper's "except pg.DatabaseError".
DbErrors == {"db_error", "commit_lost_measured", "commit_lost_undefined"}

\* The outcomes that leave the wrapper as an uncaught exception.
Uncaught == {"header_error", "rv_error"}

\* The outcomes after which the server holds the effect of the INSERT.
Inserted ==
    {"measured", "undefined", "commit_lost_measured", "commit_lost_undefined"}

(***************************************************************************)
(* What can go wrong during one call, by the line it happens at:           *)
(*   header 53-61, select_db 65, no_row 68, insert_db 93 (a DatabaseError  *)
(*   other than the two caught at 99), constraint 93/99, commit_db 104     *)
(*   (nothing committed), commit_lost 104 (committed, answer lost).        *)
(***************************************************************************)
Faults ==
    {"none", "header", "select_db", "no_row", "insert_db", "constraint",
     "commit_db", "commit_lost"}

\* Line 75: the drs_ccf_rvc the obs row holds.
RVs == {"finite", "nan", "inf", "null"}

\* Line 78: np.isfinite(rv) is False for nan and for the infinities.
IsFiniteExceptNan(v) == v \in {"finite", "nan"}

IsFinite(v) == v = "finite"

\* Line 75 is reached: the faults before it have not occurred.
RvFetched(fault) == fault \notin {"header", "select_db", "no_row"}

\* Line 78 is reached: float(rv) of line 76 has not raised.
RvConverted(fault, v) == RvFetched(fault) /\ v # "null"

\* Lines 78-85: shk_index is called on the else branch only.
ShkInvoked(fault, v) == RvConverted(fault, v) /\ IsFinite(v)

\* Lines 79 and 85: the pair (s_hk, e_s_hk).
ShkPair(v) ==
    IF ~IsFinite(v) THEN <<"nan", "nan">> ELSE <<"s_hk", "e_s_hk">>

\* Lines 51-107 on one file: the outcome of the call.
CallOutcome(fault, v) ==
    IF fault = "header" THEN "header_error"
    ELSE IF fault = "select_db" THEN "db_error"
    ELSE IF fault = "no_row" THEN "no_row"
    ELSE IF v = "null" THEN "rv_error"
    ELSE IF fault \in {"insert_db", "commit_db"} THEN "db_error"
    ELSE IF fault = "constraint" THEN "constraint"
    ELSE IF fault = "commit_lost"
      THEN (IF ShkInvoked(fault, v) THEN "commit_lost_measured"
            ELSE "commit_lost_undefined")
    ELSE IF ShkInvoked(fault, v) THEN "measured"
    ELSE "undefined"

\* Line 51: os.path.basename(filename).
Basename(path) == LET parts == Split(path, "/") IN parts[Len(parts)]

\* Line 57: the DATE-OBS card of the file's header; every spectrum has its
\* own observation timestamp (the number of its night stands for it).
DateObs(filename) ==
    CHOOSE k \in 1..Len(DateTokens) : LocalPath(k) = filename

\* Line 97: the parameters of the INSERT.
Row(filename, pair) ==
    [date_obs |-> DateObs(filename), filename |-> Basename(filename),
     s_hk |-> pair[1], e_s_hk |-> pair[2]]

\* What the call has done to the transaction of the connection: the SELECT
\* of line 65 opens one, line 101 rolls it back, line 104 commits it, the
\* return of line 73 leaves it open.
TxnAfter(o, before) ==
    IF o = "header_error" THEN before
    ELSE IF o = "rv_error" THEN "open"
    ELSE IF o \in DbErrors THEN "failed"
    ELSE IF o = "no_row" THEN "open"
    ELSE IF o = "constraint" THEN "rolled_back"
    ELSE "committed"

\* The unique key of the stellar_activity table.  The schema is not part
\* of the sources at hand; the key is the one the specification names (the
\* observation timestamp).
ConflictKey(row) == row.date_obs

InsertRowAlways(table, row) == Append(table, row)

\* Lines 93-96: INSERT ... ON CONFLICT DO NOTHING.  The table is the list
\* of its rows in the order they were inserted.
InsertRow(table, row) ==
    IF \E k \in 1..Len(table) : ConflictKey(table[k]) = ConflictKey(row)
      THEN table
    ELSE Append(table, row)

\* The stellar_activity table when a worker starts: empty, or holding what
\* an earlier run of the script has measured for the first spectrum.
PriorTables == {<<>>, <<Row(LocalPath(1), ShkPair("finite"))>>}

WorkersIdle ==
    /\ chunk = [t \in Workers |-> <<>>]
    /\ n = [t \in Workers |-> 0]
    /\ wpc = [t \in Workers |-> "idle"]
    /\ wcrash = [t \in Workers |-> "none"]
    /\ calls = [t \in Workers |-> 0]
    /\ outcome = [t \in Workers |-> "none"]
    /\ connections = [t \in Workers |-> <<>>]
    /\ txn = [t \in Workers |-> "none"]
    /\ rv = [t \in Workers |-> "unbound"]
    /\ attempted = [t \in Workers |-> None]
    /\ shk_index_calls = [t \in Workers |-> 0]
    /\ opened = [t \in Workers |-> 0]
    /\ closed = {}
    /\ used = {}
    /\ db_failures = 0
    /\ stellar_activity = <<>>
    /\ inserts = 0

\* The state of measure_shk.py in a run of eso_retrieve.py: not started.
MeasureIdle ==
    /\ filenames = <<>>
    /\ N_shk = 0
    /\ obs_filenames = {}
    /\ mpc = "idle"
    /\ mabort = "none"
    /\ collected = 0
    /\ WorkersIdle

\* The state of eso_retrieve.py in a run of measure_shk.py: not started.
RetrieveIdle ==
    /\ records = <<>>
    /\ BATCH = 1
    /\ SKIP = 0
    /\ run = 0
    /\ rpc = "idle"
    /\ abort_at = "none"
    /\ i = 0
    /\ data = <<>>
    /\ prepare_response = None
    /\ confirmation_response = None
    /\ request_numbers = <<>>
    /\ remote_paths = <<>>
    /\ request_numbers_file = NoFile
    /\ remote_paths_file = NoFile
    /\ script_file = NoFile
    /\ posts = <<>>

\* The file names the obs table may hold when the script starts.
ObsTables ==
    {{}, {BisName(1)}, {BisName(1), BisName(2)}, {BisName(MaxFiles + 1)},
     {CcfName(1)}, {BisName(1), OtherName}}

\* Lines 33-39 and 145-147: the glob and the query have been evaluated.
InitMeasure ==
    /\ \E k \in 0..MaxFiles : filenames = [j \in 1..k |-> LocalPath(j)]
    /\ N_shk = Len(filenames)
    /\ obs_filenames \in ObsTables
    /\ mpc = "filter"
    /\ mabort = "none"
    /\ collected = 0
    /\ WorkersIdle

MAbort(what) ==
    /\ mpc' = "aborted"
    /\ mabort' = what

\* Lines 143-159.
Filter ==
    /\ mpc = "filter"
    /\ IF \E name \in obs_filenames : ~Reconstructible(name)
         THEN /\ MAbort("IndexError")
              /\ UNCHANGED <<filenames, N_shk>>
         ELSE LET measured_filenames ==
                      {ExpectedPath(name) : name \in obs_filenames}
                  remaining == Range(filenames) \ measured_filenames
              IN  IF AssertFewer(measured_filenames, remaining, N_shk)
                    THEN /\ filenames' \in Orderings(remaining)
                         /\ N_shk' = Cardinality(remaining)
                         /\ mpc' = "dispatch"
                         /\ UNCHANGED mabort
                    ELSE /\ MAbort("AssertionError")
                         /\ filenames' \in Orderings(remaining)
                         /\ UNCHANGED N_shk
    /\ UNCHANGED <<obs_filenames, collected, wvars, rvars>>

\* Lines 163-170: every chunk is handed to the pool.
Dispatch ==
    /\ mpc = "dispatch"
    /\ chunk' = [t \in Workers |-> Chunk(t)]
    /\ wpc' = [t \in Workers |-> "connect"]
    /\ mpc' = "collect"
    /\ UNCHANGED <<filenames, N_shk, obs_filenames, mabort, collected, n,
                   wcrash, calls, outcome, connections, txn, rv, attempted,
                   shk_index_calls, opened, closed, used, db_failures,
                   stellar_activity, inserts, rvars>>

CurrentOfFirst(t) ==
    IF connections[0] # <<>> THEN connections[0][Len(connections[0])]
    ELSE connections[t][Len(connections[t])]

\* Lines 118, 124 and 136: connections[-1] of the wrapper's own list (a
\* local name of the call, in the worker's own process).
Current(t) == connections[t][Len(connections[t])]

CloseNothing(t) == closed

\* Lines 125 and 138: close() on the connection just popped.
Close(t) == closed \cup {Current(t)}

\* Line 112.
Connect(t) ==
    /\ wpc[t] = "connect"
    /\ opened' = [opened EXCEPT ![t] = @ + 1]
    /\ connections' = [connections EXCEPT ![t] = <<<<t, opened[t] + 1>>>>]
    /\ txn' = [txn EXCEPT ![t] = "none"]
    /\ wpc' = [wpc EXCEPT ![t] = "loop"]
    /\ UNCHANGED <<chunk, n, wcrash, calls, outcome, rv, attempted,
                   shk_index_calls, closed, used, db_failures,
                   stellar_activity, inserts, mvars, rvars>>

AfterCallSkip(o) == IF o \in Uncaught THEN "crashed" ELSE "loop"

\* Where the wrapper is after a call that ended with outcome o
\* (lines 117-134).
AfterCall(o) ==
    IF o \in Uncaught THEN "crashed"
    ELSE IF o \in DbErrors THEN "except"
    ELSE "loop"

\* Lines 116-118 and 133-134: one call of measure_stellar_activity on
\* filenames[n] with connections[-1], and what the try statement makes
\* of it.
Measure(t) ==
    /\ wpc[t] = "loop"
    /\ Len(chunk[t]) > n[t]
    /\ \E fault \in Faults, v \in RVs :
       LET o == CallOutcome(fault, v)
           filename == chunk[t][n[t] + 1]
           row == Row(filename, ShkPair(v))
       IN
          /\ o \in Outcomes
          /\ o \in DbErrors => db_failures < MaxDbFailures
          /\ db_failures' = IF o \in DbErrors THEN db_failures + 1
                            ELSE db_failures
          /\ calls' = [calls EXCEPT ![t] = @ + 1]
          /\ outcome' = [outcome EXCEPT ![t] = o]
          /\ rv' = [rv EXCEPT ![t] = IF RvFetched(fault) THEN v
                                     ELSE "unbound"]
          /\ shk_index_calls' = [shk_index_calls EXCEPT ![t] =
                IF ShkInvoked(fault, v) THEN @ + 1 ELSE @]
          /\ attempted' = [attempted EXCEPT ![t] =
                IF RvConverted(fault, v)
                  THEN [bound |-> TRUE, row |-> row]
                ELSE None]
          /\ stellar_activity' =
                IF o \in Inserted THEN InsertRow(stellar_activity, row)
                ELSE stellar_activity
          /\ inserts' = IF o \in Inserted THEN inserts + 1 ELSE inserts
          /\ txn' = [txn EXCEPT ![t] = TxnAfter(o, @)]
          /\ wpc' = [wpc EXCEPT ![t] = AfterCall(o)]
          /\ wcrash' = [wcrash EXCEPT ![t] =
                IF AfterCall(o) = "crashed" THEN "measure" ELSE @]
          /\ n' = [n EXCEPT ![t] = IF AfterCall(o) = "loop" THEN @ + 1 ELSE @]
    /\ used' = used \cup {<<Current(t), t>>}
    /\ UNCHANGED <<chunk, connections, opened, closed, mvars, rvars>>

\* Lines 120-128: the failed connection is popped and closed; then sleep.
CloseFailed(t) ==
    /\ wpc[t] = "except"
    /\ closed' = Close(t)
    /\ used' = used \cup {<<Current(t), t>>}
    /\ connections' = [connections EXCEPT
                          ![t] = SubSeq(@, 1, Len(@) - 1)]
    /\ txn' = [txn EXCEPT ![t] = "none"]
    /\ wpc' = [wpc EXCEPT ![t] = "reconnect"]
    /\ UNCHANGED <<chunk, n, wcrash, calls, outcome, rv, attempted,
                   shk_index_calls, opened, db_failures, stellar_activity,
                   inserts, mvars, rvars>>

\* Line 131: pg.connect inside the except clause.  When the database is
\* still unreachable it raises OperationalError, which nothing catches.
Reconnect(t) ==
    /\ wpc[t] = "reconnect"
    /\ \/ /\ opened' = [opened EXCEPT ![t] = @ + 1]
          /\ connections' = [connections EXCEPT
                                ![t] = Append(@, <<t, opened[t] + 1>>)]
          /\ wpc' = [wpc EXCEPT ![t] = "loop"]
          /\ UNCHANGED <<wcrash, db_failures>>
       \/ /\ db_failures < MaxDbFailures
          /\ db_failures' = db_failures + 1
          /\ wpc' = [wpc EXCEPT ![t] = "crashed"]
          /\ wcrash' = [wcrash EXCEPT ![t] = "connect"]
          /\ UNCHANGED <<opened, connections>>
    /\ UNCHANGED <<chunk, n, calls, outcome, txn, rv, attempted,
                   shk_index_calls, closed, used, stellar_activity, inserts,
                   mvars, rvars>>

\* Lines 116 and 136-139: the loop is over; the connection is popped,
\* committed and closed.  A commit on a connection that has been lost
\* raises a DatabaseError outside the try statement: the worker ends
\* there, the popped connection is not closed.
Finish(t) ==
    /\ wpc[t] = "loop"
    /\ ~(Len(chunk[t]) > n[t])
    /\ used' = used \cup {<<Current(t), t>>}
    /\ connections' = [connections EXCEPT
                          ![t] = SubSeq(@, 1, Len(@) - 1)]
    /\ \/ /\ closed' = Close(t)
          /\ txn' = [txn EXCEPT ![t] = "committed"]
          /\ wpc' = [wpc EXCEPT ![t] = "done"]
          /\ UNCHANGED <<wcrash, db_failures>>
       \/ /\ db_failures < MaxDbFailures
          /\ db_failures' = db_failures + 1
          /\ txn' = [txn EXCEPT ![t] = "failed"]
          /\ wpc' = [wpc EXCEPT ![t] = "crashed"]
          /\ wcrash' = [wcrash EXCEPT ![t] = "commit"]
          /\ UNCHANGED closed
    /\ UNCHANGED <<chunk, n, calls, outcome, rv, attempted,
                   shk_index_calls, opened, stellar_activity, inserts,
                   mvars, rvars>>

ReadyAlways(t) == TRUE

\* Line 172: each.get() has no timeout; it blocks until the call of
\* worker t has returned or raised.
Ready(t) == wpc[t] \in {"done", "crashed"}

\* Line 172: each.get() returns worker t's result, or raises in the
\* parent the exception that ended worker t.
Collect ==
    /\ mpc = "collect"
    /\ collected < THREADS
    /\ Ready(collected)
    /\ IF wpc[collected] = "crashed"
         THEN /\ MAbort("get")
              /\ UNCHANGED collected
         ELSE /\ collected' = collected + 1
              /\ UNCHANGED <<mpc, mabort>>
    /\ UNCHANGED <<filenames, N_shk, obs_filenames, wvars, rvars>>

\* Lines 174-175.
PoolJoin ==
    /\ mpc = "collect"
    /\ collected = THREADS
    /\ mpc' = "done"
    /\ UNCHANGED <<filenames, N_shk, obs_filenames, mabort, collected,
                   wvars, rvars>>

NextMeasure ==
    \/ Filter
    \/ Dispatch
    \/ \E t \in Workers : Connect(t)
    \/ \E t \in Workers : Measure(t)
    \/ \E t \in Workers : CloseFailed(t)
    \/ \E t \in Workers : Reconnect(t)
    \/ \E t \in Workers : Finish(t)
    \/ Collect
    \/ PoolJoin

InitSpec == MeasureIdle /\ InitRetrieve

Spec == InitSpec /\ [][NextRetrieve]_vars

InitSpecMeasure == RetrieveIdle /\ InitMeasure

SpecMeasure == InitSpecMeasure /\ [][NextMeasure]_vars

(***************************************************************************)
(* One worker process observed alone: a call of                            *)
(* measure_stellar_activity_wrapper with a chunk of up to MaxChunk files   *)
(* as its arguments (the pool's workers are separate processes).           *)
(***************************************************************************)
InitWorker ==
    /\ filenames = <<>>
    /\ N_shk = 0
    /\ obs_filenames = {}
    /\ mpc = "collect"
    /\ mabort = "none"
    /\ collected = 0
    /\ \E k \in 0..MaxChunk :
          chunk = [t \in Workers |->
                      IF t = 0 THEN [j \in 1..k |-> LocalPath(j)] ELSE <<>>]
    /\ n = [t \in Workers |-> 0]
    /\ wpc = [t \in Workers |-> IF t = 0 THEN "connect" ELSE "idle"]
    /\ wcrash = [t \in Workers |-> "none"]
    /\ calls = [t \in Workers |-> 0]
    /\ outcome = [t \in Workers |-> "none"]
    /\ connections = [t \in Workers |-> <<>>]
    /\ txn = [t \in Workers |-> "none"]
    /\ rv = [t \in Workers |-> "unbound"]
    /\ attempted = [t \in Workers |-> None]
    /\ shk_index_calls = [t \in Workers |-> 0]
    /\ opened = [t \in Workers |-> 0]
    /\ closed = {}
    /\ used = {}
    /\ db_failures = 0
    /\ stellar_activity \in PriorTables
    /\ inserts = 0

NextWorker ==
    \/ Connect(0)
    \/ Measure(0)
    \/ CloseFailed(0)
    \/ Reconnect(0)
    \/ Finish(0)

InitSpecWorker == RetrieveIdle /\ InitWorker

SpecWorker == InitSpecWorker /\ [][NextWorker]_vars

(***************************************************************************)
(* The dispatch observed on longer work lists: the script at line 162 with *)
(* a work list of up to MaxWork files, the chunking of lines 163-170, and  *)
(* then the call of the wrapper on the first chunk (the pool's processes   *)
(* share no program state, and the other chunks are handled by the same    *)
(* function).                                                              *)
(***************************************************************************)
WorkLists ==
    {[j \in 1..k |-> LocalPath(j)] : k \in 0..MaxWork}
        \cup {[j \in 1..k |-> LocalPath(k + 1 - j)] : k \in 0..MaxWork}

InitPartition ==
    /\ filenames \in WorkLists
    /\ N_shk = Len(filenames)
    /\ obs_filenames = {}
    /\ mpc = "dispatch"
    /\ mabort = "none"
    /\ collected = 0
    /\ WorkersIdle

NextPartition ==
    \/ Dispatch
    \/ Connect(0)
    \/ Measure(0)
    \/ CloseFailed(0)
    \/ Reconnect(0)
    \/ Finish(0)

InitSpecPartition == RetrieveIdle /\ InitPartition

SpecPartition == InitSpecPartition /\ [][NextPartition]_vars

(***************************************************************************)
(* Properties of the retrieval pipeline.                                   *)
(***************************************************************************)
IsPrefix(a, b) == Len(a) <= Len(b) /\ SubSeq(b, 1, Len(a)) = a

\* The requests of the given kind that the current run has sent for batch k.
Sent(k, step) ==
    {p \in 1..Len(posts) :
        posts[p].run = run /\ posts[p].batch = k /\ posts[p].step = step}

\* C3 (as stated): a run restarted with the skip count set to the number of
\* batches completed before the interruption proceeds.  While no path
\* checkpoint exists no batch had completed, so that skip count is 0; the
\* run restarted after one that had begun submitting must then get past
\* the checkpoint guard.
C3_ResumeProceeds ==
    (/\ run > 1
     /\ \E p \in 1..Len(posts) : posts[p].run < run
     /\ ~remote_paths_file.exists
     /\ SKIP = 0)
        => ~(rpc = "aborted" /\ abort_at = "guard")

\* C3 (amended): what a run has persisted is never lost, but the pipeline
\* does not resume while it is there: a checkpoint file, once present, keeps
\* its contents as a prefix in every later step of this and of every
\* restarted run; a restarted run that finds a checkpoint file ends at the
\* guard, whatever SKIP is, with nothing sent and no script written; and a
\* run that passes the guard found no checkpoint and starts from empty lists.
C3_CheckpointsKeptRestartRefused ==
    [][ /\ request_numbers_file.exists =>
              /\ request_numbers_file'.exists
              /\ IsPrefix(request_numbers_file.content,
                          request_numbers_file'.content)
        /\ remote_paths_file.exists =>
              /\ remote_paths_file'.exists
              /\ IsPrefix(remote_paths_file.content,
                          remote_paths_file'.content)
        /\ (/\ rpc = "guard"
            /\ run > 1
            /\ (request_numbers_file.exists \/ remote_paths_file.exists)) =>
              /\ rpc' \in {"aborted", "killed"}
              /\ posts' = posts
              /\ script_file' = script_file
        /\ (rpc = "guard" /\ rpc' = "for") =>
              /\ ~request_numbers_file.exists
              /\ ~remote_paths_file.exists
              /\ request_numbers' = <<>>
              /\ remote_paths' = <<>>
      ]_vars

\* A second run stopped by the guard on the request checkpoint that the
\* first run wrote before it was interrupted.
C3_Witness ==
    /\ run = 2
    /\ rpc = "aborted"
    /\ abort_at = "guard"
    /\ request_numbers_file = File(<<21>>)
    /\ ~remote_paths_file.exists
    /\ \E p \in 1..Len(posts) :
          posts[p].run = 1 /\ posts[p].step = "submission"

\* C4: when the script reaches the checkpoint guard and either checkpoint
\* file exists, the run ends at the guard: the step leaves both files and
\* the archive untouched, and a run ended by the guard has sent nothing.
C4_CheckpointGuard ==
    /\ [](abort_at = "guard" =>
            /\ rpc = "aborted"
            /\ \A p \in 1..Len(posts) : posts[p].run # run)
    /\ [][ (/\ rpc = "guard"
            /\ (request_numbers_file.exists \/ remote_paths_file.exists)) =>
              /\ rpc' \in {"aborted", "killed"}
              /\ rpc' = "aborted" => abort_at' = "guard"
              /\ request_numbers_file' = request_numbers_file
              /\ remote_paths_file' = remote_paths_file
              /\ posts' = posts
         ]_vars

\* The first run is stopped by a path checkpoint alone.
C4_Witness ==
    /\ run = 1
    /\ rpc = "aborted"
    /\ abort_at = "guard"
    /\ ~request_numbers_file.exists
    /\ remote_paths_file.exists
    /\ N > 0

\* C5 (as stated): once a request has been submitted and its number saved,
\* the polling stage (lines 109-139) waits and polls until COMPLETE and
\* never ends the run with an exception.
C5_PollingNeverAborts == ~(rpc = "aborted" /\ abort_at = "retrieve")

\* C8: when the confirmation POST or the submission POST of batch i
\* answers with a non-success status, the run is over at that step; the
\* failed step was sent once and nothing after it, no request number was
\* appended or saved for batch i, and no later batch was sent.
C8_SubmissionFailureFatal ==
    LET failedPrepare == prepare_response.bound /\ ~prepare_response.ok
        failedSubmit ==
            confirmation_response.bound /\ ~confirmation_response.ok
        earlier == {k \in 0..(i - 1) : Sent(k, "submission") # {}}
    IN  (failedPrepare \/ failedSubmit) =>
          /\ rpc = "aborted"
          /\ abort_at = (IF failedPrepare THEN "prepare" ELSE "submit")
          /\ Cardinality(Sent(i, "confirmation")) = 1
          /\ Cardinality(Sent(i, "submission")) =
                 (IF failedPrepare THEN 0 ELSE 1)
          /\ \A p \in 1..Len(posts) :
                 posts[p].run = run => posts[p].batch <= i
          /\ Len(request_numbers) = Cardinality(earlier)
          /\ request_numbers_file =
                 (IF request_numbers = <<>> THEN NoFile
                  ELSE File(request_numbers))

\* The submission POST of the second batch failed with a body that holds a
\* well-formed request number.
C8_Witness ==
    /\ confirmation_response.bound
    /\ ~confirmation_response.ok
    /\ confirmation_response.text = Marked(<<"1", "2">>)
    /\ i = 1
    /\ rpc = "aborted"

CeilDiv(a, b) == CHOOSE c \in 0..a : c * b >= a /\ (c = 0 \/ (c - 1) * b < a)

RECURSIVE ConcatSlices(_)
ConcatSlices(k) ==
    IF k = 0 THEN <<>> ELSE ConcatSlices(k - 1) \o BatchSlice(k - 1)

\* C9: the number of batches is ceil(N/BATCH); the batches, in order, add
\* up to the identifier list (so order is kept), each holds between 1 and
\* BATCH identifiers, every identifier lies in exactly one batch, and the
\* batch being submitted is the slice of its index.
C9_BatchPartition ==
    /\ I = CeilDiv(N, BATCH)
    /\ ConcatSlices(I) = records
    /\ \A k \in 0..(I - 1) :
          Len(BatchSlice(k)) >= 1 /\ Len(BatchSlice(k)) <= BATCH
    /\ \A p \in 1..N :
          Cardinality({k \in 0..(I - 1) :
              \E j \in 1..Len(BatchSlice(k)) :
                  BatchSlice(k)[j] = records[p]}) = 1
    /\ rpc \in {"prepare", "submit"} => data = BatchSlice(i)

\* The last, shorter batch of three identifiers in batches of two.
C9_Witness ==
    /\ N = 3
    /\ BATCH = 2
    /\ rpc = "prepare"
    /\ i = 1
    /\ data = <<records[3]>>

(***************************************************************************)
(* Properties of the measurement pipeline.                                 *)
(***************************************************************************)
\* C1 (as stated): a database failure met while a file of the chunk is
\* processed never leaves a file unprocessed: a worker that has stopped,
\* other than by an exception which is not a database error (C2), has
\* processed every file of its chunk.
C1_ReconnectProcessesAll ==
    \A t \in Workers :
        (wpc[t] \in {"done", "crashed"} /\ wcrash[t] # "measure")
            => n[t] = Len(chunk[t])

C10_FilterCompletes ==
    (mpc # "filter" /\ \A name \in obs_filenames : Reconstructible(name))
        => /\ mabort # "AssertionError"
           /\ \A name \in obs_filenames :
                  ExpectedPath(name) \notin Range(filenames)

\* C11: the same (timestamp, file name, index, uncertainty) tuple inserted
\* twice leaves one row: a committed INSERT for a timestamp the table holds
\* leaves the table as it is, one for a new timestamp appends its row, and
\* whatever failures and re-attempts a worker goes through, the table never
\* holds two rows of one observation timestamp.
C11_IdempotentInsert ==
    /\ [](\A a, b \in 1..Len(stellar_activity) :
            stellar_activity[a].date_obs = stellar_activity[b].date_obs
                => a = b)
    /\ [][\A t \in Workers :
            (calls'[t] = calls[t] + 1 /\ inserts' = inserts + 1) =>
               LET row == attempted'[t].row
                   held == \E k \in 1..Len(stellar_activity) :
                              stellar_activity[k].date_obs = row.date_obs
               IN  stellar_activity' =
                       (IF held THEN stellar_activity
                        ELSE Append(stellar_activity, row))
         ]_vars

\* The first file's row was committed, the answer was lost, and the file
\* was measured and inserted again on a new connection: two committed
\* INSERTs of the same tuple, one row.
C11_Witness ==
    /\ inserts = 2
    /\ calls[0] = 2
    /\ opened[0] = 2
    /\ n[0] = 1
    /\ outcome[0] = "measured"
    /\ attempted[0].row = Row(LocalPath(1), ShkPair("finite"))
    /\ stellar_activity = <<Row(LocalPath(1), ShkPair("finite"))>>

\* C12: a call that looks up a non-finite radial velocity (nan or an
\* infinity) for its file does not call shk_index, and goes on to execute
\* the INSERT for that file with the index and the uncertainty both nan;
\* when that INSERT is committed for a new timestamp, the row is the one
\* the table gains.
C12_NonFiniteRv ==
    [][\A t \in Workers :
          (calls'[t] = calls[t] + 1 /\ rv'[t] \in {"nan", "inf"}) =>
             /\ shk_index_calls'[t] = shk_index_calls[t]
             /\ attempted'[t].bound
             /\ attempted'[t].row.date_obs = DateObs(chunk[t][n[t] + 1])
             /\ attempted'[t].row.filename = Basename(chunk[t][n[t] + 1])
             /\ attempted'[t].row.s_hk = "nan"
             /\ attempted'[t].row.e_s_hk = "nan"
             /\ outcome'[t] \in {"undefined", "commit_lost_undefined",
                                 "constraint", "db_error"}
             /\ Len(stellar_activity') > Len(stellar_activity) =>
                    stellar_activity'[Len(stellar_activity')]
                        = attempted'[t].row
      ]_vars

\* The first file of a chunk had an infinite radial velocity: its row is
\* in the table with both values nan, and shk_index was never called.
C12_Witness ==
    /\ calls[0] = 1
    /\ rv[0] = "inf"
    /\ outcome[0] = "undefined"
    /\ shk_index_calls[0] = 0
    /\ n[0] = 1
    /\ stellar_activity =
           <<[date_obs |-> 1, filename |-> Basename(LocalPath(1)),
              s_hk |-> "nan", e_s_hk |-> "nan"]>>

RECURSIVE ConcatChunks(_)
ConcatChunks(k) ==
    IF k = 0 THEN <<>> ELSE ConcatChunks(k - 1) \o chunk[k - 1]

\* C13: once the work has been dispatched, the THREADS chunks, taken in
\* worker order, add up to the work list (contiguous, nothing dropped),
\* every file sits in exactly one place of one chunk, no chunk is longer
\* than ceil(N/THREADS), the chunks never change afterwards, and a worker
\* goes through its chunk in list order: its index moves by 0 or 1, never
\* beyond the chunk, the file of a call is the one at the index, and a
\* worker that is done has been through all of it.
C13_StaticPartition ==
    /\ [](mpc # "dispatch" =>
            /\ ConcatChunks(THREADS) = filenames
            /\ \A t \in Workers : Len(chunk[t]) <= CeilDiv(N_shk, THREADS)
            /\ \A f \in Range(filenames) :
                  Cardinality({p \in Workers \X (1..N_shk) :
                      /\ p[2] <= Len(chunk[p[1]])
                      /\ chunk[p[1]][p[2]] = f}) = 1
            /\ \A t \in Workers :
                  /\ n[t] <= Len(chunk[t])
                  /\ wpc[t] = "done" => n[t] = Len(chunk[t]))
    /\ [][ /\ mpc # "dispatch" => chunk' = chunk
          /\ \A t \in Workers :
                /\ n'[t] \in {n[t], n[t] + 1}
                /\ calls'[t] = calls[t] + 1 =>
                      /\ n[t] < Len(chunk[t])
                      /\ attempted'[t].bound =>
                            attempted'[t].row.filename
                                = Basename(chunk[t][n[t] + 1])
         ]_vars

\* Six files in descending order: chunks of 2, 2, 2 and 0 files, and the
\* first worker has gone through its two files, the second one last.
C13_Witness ==
    /\ N_shk = 6
    /\ filenames[1] = LocalPath(6)
    /\ Len(chunk[0]) = 2 /\ Len(chunk[2]) = 2 /\ Len(chunk[3]) = 0
    /\ chunk[1] = <<LocalPath(4), LocalPath(3)>>
    /\ wpc[0] = "done"
    /\ n[0] = 2
    /\ attempted[0].bound
    /\ attempted[0].row.filename = Basename(LocalPath(5))

\* C14: the parent gets past the collection of worker t's result only when
\* worker t has returned, having been through every file of its chunk; so
\* a parent that has passed the whole collection step (and one that has
\* finished) has every worker done with its chunk exhausted.
C14_ParentWaits ==
    /\ \A t \in Workers :
          collected > t => (wpc[t] = "done" /\ n[t] = Len(chunk[t]))
    /\ mpc = "done" =>
          /\ collected = THREADS
          /\ ConcatChunks(THREADS) = filenames
          /\ \A t \in Workers : wpc[t] = "done" /\ n[t] = Len(chunk[t])

\* The parent has finished a run over two files: the first worker lost
\* its connection once and came back, the second skipped its file.
C14_Witness ==
    /\ mpc = "done"
    /\ N_shk = 2
    /\ opened[0] = 2
    /\ calls[0] = 2
    /\ outcome[1] = "no_row"
    /\ n[0] = 1 /\ n[1] = 1

\* C15: a connection is used (queried, committed, closed) only by the
\* worker that opened it, no connection is in the lists of two workers,
\* and once the work is dispatched a step changes the local state of at
\* most one worker.  (The stellar_activity table is the state of the
\* database server, which every worker writes to through its own
\* connection.)
C15_ConnectionIsolation ==
    /\ [](/\ \A p \in used : p[1][1] = p[2]
          /\ \A t \in Workers : \A k \in 1..Len(connections[t]) :
                 /\ connections[t][k][1] = t
                 /\ \A u \in Workers \ {t} :
                       \A j \in 1..Len(connections[u]) :
                           connections[u][j] # connections[t][k])
    /\ [][LET Changed(t) ==
                 \/ chunk'[t] # chunk[t]
                 \/ n'[t] # n[t]
                 \/ wpc'[t] # wpc[t]
                 \/ wcrash'[t] # wcrash[t]
                 \/ calls'[t] # calls[t]
                 \/ outcome'[t] # outcome[t]
                 \/ connections'[t] # connections[t]
                 \/ txn'[t] # txn[t]
                 \/ rv'[t] # rv[t]
                 \/ attempted'[t] # attempted[t]
                 \/ shk_index_calls'[t] # shk_index_calls[t]
                 \/ opened'[t] # opened[t]
         IN  mpc # "dispatch" =>
                \A t, u \in Workers : (Changed(t) /\ Changed(u)) => t = u
         ]_vars

\* The first worker is on its second connection while the second worker
\* works on its first one; each has used only its own.
C15_Witness ==
    /\ wpc[0] = "loop"
    /\ wpc[1] = "loop"
    /\ connections[0] = << <<0, 2>> >>
    /\ connections[1] = << <<1, 1>> >>
    /\ <<0, 1>> \in closed
    /\ {<< <<0, 1>>, 0>>, << <<0, 2>>, 0>>, << <<1, 1>>, 1>>} \subseteq used

\* C16 (as stated): a run that has ended without the guard, a failed POST,
\* an unreadable response or a kill stopping it has sent nothing for the
\* batches below the skip count, and for every other batch exactly one
\* confirmation POST followed by exactly one submission POST, with one
\* request number per submitted batch in the list.
C16_EachBatchOnce ==
    (\/ rpc = "done"
     \/ rpc = "aborted" /\ abort_at = "retrieve")
        => /\ \A k \in 0..(I - 1) :
                 IF k < SKIP
                   THEN Sent(k, "confirmation") = {}
                        /\ Sent(k, "submission") = {}
                 ELSE /\ Cardinality(Sent(k, "confirmation")) = 1
                      /\ Cardinality(Sent(k, "submission")) = 1
                      /\ \A a \in Sent(k, "confirmation") :
                            \A b \in Sent(k, "submission") : a < b
           /\ Len(request_numbers)
                  = Cardinality({k \in 0..(I - 1) : ~(k < SKIP)})

\* C17: the index n of a worker moves by 0 or by 1, and by 1 only in a
\* call that ended without a database error; a call that ended with a
\* database error leaves n as it is and leads to the except clause, which
\* closes the connection the call used and drops it from the list, still
\* with n as it is; the connection opened next is a new one, never used
\* and not closed; and every call is made on the single, open connection
\* of the list, so the call that follows a database error is made for the
\* same file on the new connection.
C17_RetryStep ==
    /\ [](\A t \in Workers :
            (wpc[t] = "loop" /\ outcome[t] \in {"db_error",
                 "commit_lost_measured", "commit_lost_undefined"}) =>
               /\ opened[t] >= 2
               /\ connections[t] = << <<t, opened[t]>> >>
               /\ <<t, opened[t]>> \notin closed
               /\ << <<t, opened[t]>>, t>> \notin used
               /\ n[t] < Len(chunk[t]))
    /\ [][\A t \in Workers :
            /\ n'[t] \in {n[t], n[t] + 1}
            /\ n'[t] = n[t] + 1 =>
                  /\ calls'[t] = calls[t] + 1
                  /\ outcome'[t] \in {"no_row", "constraint", "measured",
                                      "undefined"}
            /\ calls'[t] = calls[t] + 1 =>
                  /\ Len(connections[t]) = 1
                  /\ connections[t][1] \notin closed
                  /\ connections'[t] = connections[t]
                  /\ outcome'[t] \in {"db_error", "commit_lost_measured",
                                      "commit_lost_undefined"} =>
                        (n'[t] = n[t] /\ wpc'[t] = "except")
            /\ (wpc[t] = "except" /\ wpc'[t] # "except") =>
                  /\ wpc'[t] = "reconnect"
                  /\ closed' = closed \cup {connections[t][1]}
                  /\ connections'[t] = <<>>
                  /\ n'[t] = n[t]
            /\ (wpc[t] = "reconnect" /\ wpc'[t] = "loop") =>
                  /\ Len(connections'[t]) = 1
                  /\ connections'[t][1] \notin closed
                  /\ \A u \in Workers : <<connections'[t][1], u>> \notin used
                  /\ n'[t] = n[t]
         ]_vars

\* The second file of a chunk met a database error, and was measured in
\* the next call on the worker's second connection, the first one closed.
C17_Witness ==
    /\ calls[0] = 3
    /\ n[0] = 2
    /\ db_failures = 1
    /\ opened[0] = 2
    /\ outcome[0] = "measured"
    /\ attempted[0].row.filename = Basename(LocalPath(2))
    /\ connections[0] = << <<0, 2>> >>
    /\ closed = {<<0, 1>>}
    /\ used = {<< <<0, 1>>, 0>>, << <<0, 2>>, 0>>}
    /\ inserts = 2

\* C18 (as stated): a run that has ended without the guard, a failed POST,
\* an unreadable response or a kill stopping it has written the download
\* script, after all its batches, and the text put in place of the
\* placeholder is the accumulated path list of the run.
C18_ScriptEmission ==
    (run = 1 /\ (rpc = "done" \/ (rpc = "aborted" /\ abort_at = "retrieve")))
        => /\ script_file.exists
           /\ script_file.content = remote_paths
           /\ i = I
           /\ \A k \in 0..(I - 1) :
                  ~(k < SKIP) => Sent(k, "submission") # {}

\* A text without a "Request #<integer>" token.
NoToken(text) ==
    \/ ~text.marker
    \/ text.tail = <<>>
    \/ text.tail[1] \notin {"1", "2"}

\* C19: when the submission POST was answered with a success status and a
\* text without a "Request #<integer>" token (no "Request #" at all, or one
\* that no digit follows), the step that parses the answer ends the run
\* there: nothing is appended to the request numbers, the checkpoint file
\* is left as it is, nothing more is sent, and the polling stage is not
\* entered.
C19_MissingTokenFatal ==
    /\ []((/\ confirmation_response.bound
            /\ confirmation_response.ok
            /\ NoToken(confirmation_response.text)) =>
               /\ rpc \in {"parse", "aborted", "killed"}
               /\ rpc = "aborted" => abort_at = "parse")
    /\ [][(/\ rpc = "parse"
            /\ NoToken(confirmation_response.text)) =>
               /\ rpc' \in {"aborted", "killed"}
               /\ rpc' = "aborted" => abort_at' = "parse"
               /\ request_numbers' = request_numbers
               /\ request_numbers_file' = request_numbers_file
               /\ remote_paths_file' = remote_paths_file
               /\ posts' = posts
         ]_vars

\* The second batch (the first was skipped) was accepted with a text in
\* which no digit follows "Request #"; the run has ended at the parse.
C19_Witness ==
    /\ rpc = "aborted"
    /\ abort_at = "parse"
    /\ i = 1
    /\ confirmation_response.ok
    /\ confirmation_response.text = Marked(<<"x", "1">>)
    /\ request_numbers = <<>>
    /\ ~request_numbers_file.exists
    /\ Len(posts) = 2

\* The connections worker t has opened and not closed.
OpenConnections(t) == {<<t, k>> : k \in 1..opened[t]} \ closed

\* C20: a worker never has more than one open connection, and has exactly
\* one, the one of its list, while it is in its loop over the files; a
\* connection is opened only when every connection the worker opened
\* before has been closed; and a worker in its terminal state has closed
\* every connection it opened, the last one in the step that committed it.
C20_ConnectionLifecycle ==
    /\ [](\A t \in Workers :
            /\ Cardinality(OpenConnections(t)) <= 1
            /\ Len(connections[t]) <= 1
            /\ wpc[t] \in {"loop", "except"} =>
                  /\ Len(connections[t]) = 1
                  /\ OpenConnections(t) = {connections[t][1]}
            /\ wpc[t] = "reconnect" => OpenConnections(t) = {}
            /\ wpc[t] = "done" =>
                  /\ opened[t] >= 1
                  /\ OpenConnections(t) = {}
                  /\ connections[t] = <<>>
                  /\ txn[t] = "committed")
    /\ [][\A t \in Workers :
            /\ opened'[t] # opened[t] =>
                  /\ opened'[t] = opened[t] + 1
                  /\ OpenConnections(t) = {}
                  /\ closed' = closed
            /\ (wpc[t] # "done" /\ wpc'[t] = "done") =>
                  /\ Len(connections[t]) = 1
                  /\ connections[t][1] \notin closed
                  /\ txn'[t] = "committed"
                  /\ closed' = closed \cup {connections[t][1]}
         ]_vars

\* A worker that lost its connection twice has finished: its three
\* connections are closed, the last one after the commit.
C20_Witness ==
    /\ wpc[0] = "done"
    /\ opened[0] = 3
    /\ closed = {<<0, 1>>, <<0, 2>>, <<0, 3>>}
    /\ connections[0] = <<>>
    /\ txn[0] = "committed"
    /\ n[0] = Len(chunk[0])
    /\ n[0] >= 1

====
